---- MODULE Spec2Model ----
(***************************************************************************)
(* Model of streamlit_app.py: the NYT comment retrieval pipeline.          *)
(*   get_article_id            pattern-based identifier extraction         *)
(*   get_comments_via_graphql  structured retriever                        *)
(*   scrape_nyt_comments       scraping retriever                          *)
(*   module-level script       orchestration, sentiment enrichment         *)
(* Strings that a regular expression inspects are sequences of one-char    *)
(* strings.  JSON / pandas cell values are tagged records.                 *)
(***************************************************************************)
EXTENDS Integers, Sequences, FiniteSets, TLC

VARIABLES
    pc,             \* position in the module-level script
    article_url,    \* the text input
    article_id,     \* result of get_article_id
    comments_df,    \* the collection the script holds
    calls,          \* the functions called so far, in order
    requests,       \* the outbound HTTP requests issued so far, in order
    gql_response,   \* what the GraphQL endpoint answered
    page_response,  \* what the article page request answered
    raised          \* the exception that reached the top level, or "none"

vars == <<pc, article_url, article_id, comments_df, calls, requests,
          gql_response, page_response, raised>>

(***************************************************************************)
(* Bounds                                                                  *)
(***************************************************************************)
MaxChunks == 3
MaxEdges == 2
MaxComments == 2

(***************************************************************************)
(* Python values                                                           *)
(***************************************************************************)
\* Python's None where a string (a sequence of characters) is expected
None == <<"<None>">>

\* bool(x) of an Optional[str]
Truthy(s) == s # None /\ s # <<>>

(***************************************************************************)
(* Characters and the literal texts of the bounded URL inputs              *)
(***************************************************************************)
Digit == {"0", "1", "2", "3", "4", "5", "6", "7", "8", "9"}
HexLower == {"a", "b", "c", "d", "e", "f"}

\* the character class [a-f0-9-] of the first pattern
HexDashClass == HexLower \cup Digit \cup {"-"}

LitArticle == <<"a", "r", "t", "i", "c", "l", "e", "/">>

ChunkHost == <<"h", "t", "t", "p", "s", ":", "/", "/", "w", "w", "w", ".", "n", "y", "t", "i", "m", "e", "s", ".", "c", "o", "m", "/">>
ChunkUuid == <<"1", "2", "3", "e", "4", "5", "6", "7", "-", "e", "8", "9", "b", "-", "1", "2", "d", "3", "-", "a", "4", "5", "6", "-", "4", "2", "6", "6", "1", "4", "1", "7", "4", "0", "0", "0">>
ChunkUuidUpper == <<"1", "2", "3", "E", "4", "5", "6", "7", "-", "E", "8", "9", "B", "-", "1", "2", "D", "3", "-", "A", "4", "5", "6", "-", "4", "2", "6", "6", "1", "4", "1", "7", "4", "0", "0", "0">>
ChunkDate == <<"2", "0", "2", "4", "/", "0", "1", "/", "1", "5", "/">>
ChunkSlug == <<"w", "o", "r", "l", "d", "-", "n", "e", "w", "s">>
ChunkNum == <<"9", "8", "7", "6", "5">>
ChunkShort == <<"1", "2", "3">>
ChunkHtml == <<".", "h", "t", "m", "l">>
ChunkSlash == <<"/">>

Chunks == {LitArticle, ChunkHost, ChunkUuid, ChunkUuidUpper, ChunkDate,
           ChunkSlug, ChunkNum, ChunkShort, ChunkHtml, ChunkSlash}

RECURSIVE Concat(_)
Concat(ss) == IF ss = <<>> THEN <<>> ELSE Head(ss) \o Concat(Tail(ss))

\* every URL made of at most MaxChunks chunks
BoundedUrls ==
    { Concat(cs) : cs \in UNION { [1..n -> Chunks] : n \in 0..MaxChunks } }

(***************************************************************************)
(* re.search for the three patterns of get_article_id                      *)
(***************************************************************************)
NoMatch == [matched |-> FALSE, group1 |-> <<>>]

\* s has the literal lit at position i
LitAt(s, i, lit) ==
    /\ i >= 1
    /\ i + Len(lit) - 1 <= Len(s)
    /\ \A k \in 1..Len(lit) : s[i + k - 1] = lit[k]

\* s has n characters of class C starting at position i
ClassAt(s, i, n, C) ==
    /\ i >= 1
    /\ i + n - 1 <= Len(s)
    /\ \A k \in 0..(n - 1) : s[i + k] \in C

\* length of the longest run of characters of class C starting at i (greedy +)
RunLen(s, i, C) ==
    CHOOSE n \in 0..(Len(s) - i + 1) :
        /\ ClassAt(s, i, n, C)
        /\ (i + n > Len(s) \/ s[i + n] \notin C)

\* length of the longest run of characters other than "/" starting at i
RunLenNotSlash(s, i) ==
    CHOOSE n \in 0..(Len(s) - i + 1) :
        /\ \A k \in 0..(n - 1) : s[i + k] # "/"
        /\ (i + n > Len(s) \/ s[i + n] = "/")

\* the leftmost position of a set of candidate start positions
Leftmost(P) == CHOOSE i \in P : \A j \in P : i <= j

\* r'article/([a-f0-9-]+)'
SearchUuid(s) ==
    LET P == { i \in 1..Len(s) :
                 LitAt(s, i, LitArticle) /\ ClassAt(s, i + 8, 1, HexDashClass) }
    IN IF P = {} THEN NoMatch
       ELSE LET i == Leftmost(P)
                n == RunLen(s, i + 8, HexDashClass)
            IN [matched |-> TRUE, group1 |-> SubSeq(s, i + 8, i + 8 + n - 1)]

\* r'/(\d{4}/\d{2}/\d{2}/[^/]+)'
SearchDateSlug(s) ==
    LET P == { i \in 1..Len(s) :
                 /\ LitAt(s, i, <<"/">>)
                 /\ ClassAt(s, i + 1, 4, Digit)
                 /\ LitAt(s, i + 5, <<"/">>)
                 /\ ClassAt(s, i + 6, 2, Digit)
                 /\ LitAt(s, i + 8, <<"/">>)
                 /\ ClassAt(s, i + 9, 2, Digit)
                 /\ LitAt(s, i + 11, <<"/">>)
                 /\ i + 12 <= Len(s)
                 /\ s[i + 12] # "/" }
    IN IF P = {} THEN NoMatch
       ELSE LET i == Leftmost(P)
                n == RunLenNotSlash(s, i + 12)
            IN [matched |-> TRUE, group1 |-> SubSeq(s, i + 1, i + 11 + n)]

\* r'(\d{5,})'
SearchDigits(s) ==
    LET P == { i \in 1..Len(s) : ClassAt(s, i, 5, Digit) }
    IN IF P = {} THEN NoMatch
       ELSE LET i == Leftmost(P)
                n == RunLen(s, i, Digit)
            IN [matched |-> TRUE, group1 |-> SubSeq(s, i, i + n - 1)]

\* the list `patterns`, by index
NumPatterns == 3

re_search(k, s) ==
    CASE k = 1 -> SearchUuid(s)
      [] k = 2 -> SearchDateSlug(s)
      [] k = 3 -> SearchDigits(s)

\* get_article_id changed so that the last matching pattern wins
RECURSIVE TryPatternsLastWins(_, _)
TryPatternsLastWins(s, k) ==
    IF k > NumPatterns THEN None
    ELSE LET match == re_search(k, s)
             later == TryPatternsLastWins(s, k + 1)
         IN IF later # None THEN later
            ELSE IF match.matched THEN match.group1 ELSE None

\* the loop `for pattern in patterns` from index k on
RECURSIVE TryPatterns(_, _)
TryPatterns(s, k) ==
    IF k > NumPatterns THEN None
    ELSE LET match == re_search(k, s)
         IN IF match.matched THEN match.group1
            ELSE TryPatterns(s, k + 1)

get_article_id(url) == TryPatterns(url, 1)

(***************************************************************************)
(* JSON values, exceptions, data frames                                    *)
(***************************************************************************)
PyStr(x) == [str |-> x]
PyInt(n) == [int |-> n]
PyBool(b) == [bool |-> b]
Null == [null |-> TRUE]
Dict(f) == [dict |-> f]
List(l) == [list |-> l]
\* the float NaN pandas puts where a row has no value for a column
NaN == [nan |-> TRUE]

IsStr(v) == "str" \in DOMAIN v
IsDict(v) == "dict" \in DOMAIN v
IsList(v) == "list" \in DOMAIN v

\* the outcome of evaluating an expression: a value, or a raised exception
Return(v) == [ok |-> TRUE, val |-> v]
Raise(e) == [ok |-> FALSE, exc |-> e]

\* v[k] for a string key k
GetItem(v, k) ==
    IF ~IsDict(v) THEN Raise("TypeError")
    ELSE IF k \notin DOMAIN v.dict THEN Raise("KeyError")
    ELSE Return(v.dict[k])

\* v[k1][k2]...
RECURSIVE GetPath(_, _)
GetPath(v, path) ==
    IF path = <<>> THEN Return(v)
    ELSE LET r == GetItem(v, Head(path))
         IN IF r.ok THEN GetPath(r.val, Tail(path)) ELSE r

\* a d with key k removed
Without(d, k) == Dict([x \in DOMAIN d.dict \ {k} |-> d.dict[x]])

\* pd.DataFrame(): no columns, no rows
EmptyDataFrame == [columns |-> {}, rows |-> <<>>]

\* the name comments_df before any assignment
Undefined == [undefined |-> TRUE]

IsDataFrame(x) == DOMAIN x = {"columns", "rows"}

\* pd.DataFrame(records) for a list of dicts: the columns are the union of
\* the keys, a row has NaN where its dict has no value.  (Column order plays
\* no role: every access is by column name.)
DataFrame(records) ==
    LET cols == UNION { DOMAIN records[i] : i \in 1..Len(records) }
    IN [columns |-> cols,
        rows |-> [i \in 1..Len(records) |->
                    [c \in cols |-> IF c \in DOMAIN records[i]
                                    THEN records[i][c] ELSE NaN]]]

\* df.empty
Empty(df) == df.columns = {} \/ df.rows = <<>>

\* df.rename(columns=m), m a function on some column names
Rename(df, m) ==
    LET new(c) == IF c \in DOMAIN m THEN m[c] ELSE c
    IN [columns |-> { new(c) : c \in df.columns },
        rows |-> [i \in 1..Len(df.rows) |->
                    [c \in { new(x) : x \in df.columns } |->
                        df.rows[i][CHOOSE x \in df.columns : new(x) = c]]]]

\* df[cols] for a list of column names: KeyError unless all are columns
Select(df, cols) ==
    IF ~(cols \subseteq df.columns) THEN Raise("KeyError")
    ELSE Return([columns |-> cols,
                 rows |-> [i \in 1..Len(df.rows) |->
                             [c \in cols |-> df.rows[i][c]]]])

(***************************************************************************)
(* get_comments_via_graphql                                                *)
(***************************************************************************)
\* the dict appended for one edge (lines 69-76); the first failing lookup
\* raises
EdgeToComment(edge) ==
    LET comment == GetPath(edge, <<"node", "comment">>)
    IN IF ~comment.ok THEN comment
       ELSE LET text == GetItem(comment.val, "text")
                acceptedAt == GetItem(comment.val, "acceptedAt")
                recommendedCount == GetItem(comment.val, "recommendedCount")
                timesPick == GetItem(comment.val, "timesPick")
                name == GetPath(comment.val, <<"author", "name">>)
            IN IF ~text.ok THEN text
               ELSE IF ~acceptedAt.ok THEN acceptedAt
               ELSE IF ~recommendedCount.ok THEN recommendedCount
               ELSE IF ~timesPick.ok THEN timesPick
               ELSE IF ~name.ok THEN name
               ELSE Return([commentBody |-> text.val,
                            createDate |-> acceptedAt.val,
                            recommendations |-> recommendedCount.val,
                            editorsSelection |-> timesPick.val,
                            userDisplayName |-> name.val])

\* the loop changed so that each comment is put in front of the list
RECURSIVE ProcessEdgesReversed(_, _, _)
ProcessEdgesReversed(edges, i, comments) ==
    IF i > Len(edges) THEN Return(comments)
    ELSE LET c == EdgeToComment(edges[i])
         IN IF ~c.ok THEN c
            ELSE ProcessEdgesReversed(edges, i + 1, <<c.val>> \o comments)

\* the loop `for edge in ...` from index i on, comments being the list so far
RECURSIVE ProcessEdges(_, _, _)
ProcessEdges(edges, i, comments) ==
    IF i > Len(edges) THEN Return(comments)
    ELSE LET c == EdgeToComment(edges[i])
         IN IF ~c.ok THEN c
            ELSE ProcessEdges(edges, i + 1, Append(comments, c.val))

\* the body of the try block (lines 36-78) for a given endpoint answer
GraphqlTry(response) ==
    IF response.kind = "ConnectionError" THEN Raise("ConnectionError")
    ELSE IF response.kind = "NotJson" THEN Raise("JSONDecodeError")
    ELSE LET edges == GetPath(response.data,
                              <<"data", "communityComments", "edges">>)
         IN IF ~edges.ok THEN edges
            ELSE IF ~IsList(edges.val) THEN Raise("TypeError")
            ELSE LET comments == ProcessEdges(edges.val.list, 1, <<>>)
                 IN IF ~comments.ok THEN comments
                    ELSE Return(DataFrame(comments.val))

\* get_comments_via_graphql without its except clause
GraphqlUncaught(response) == GraphqlTry(response)

\* try ... except Exception: return pd.DataFrame()
get_comments_via_graphql(response) ==
    LET r == GraphqlTry(response)
    IN IF r.ok THEN r ELSE Return(EmptyDataFrame)

\* get_comments_via_graphql changed to send its request a second time
GraphqlRequestsRetried(id) ==
    << [to |-> "graphql", key |-> id], [to |-> "graphql", key |-> id] >>

\* the HTTP requests one call of get_comments_via_graphql issues (line 58)
GraphqlRequests(id) == << [to |-> "graphql", key |-> id] >>

(***************************************************************************)
(* scrape_nyt_comments                                                     *)
(***************************************************************************)
\* The text of a script element is a sequence of tokens: Tok("var") is the
\* text window.__preloadedData, Tok("ws") white space, Tok("junk") any text
\* that is no JSON, the others the character they name; Member(k, v) is the
\* JSON text of an object member "k": v.
Tok(x) == [tok |-> x]
Member(k, v) == [key |-> k, value |-> v]

IsMember(t) == "key" \in DOMAIN t

\* the sample strings whose text contains the two characters };
TextsWithCloser == {"odd }; text"}

\* the JSON text of value v contains the two characters }; (only inside a
\* string: between values JSON has a comma or a closing bracket after a })
RECURSIVE HasCloser(_)
HasCloser(v) ==
    IF IsStr(v) THEN v.str \in TextsWithCloser
    ELSE IF IsList(v) THEN \E i \in 1..Len(v.list) : HasCloser(v.list[i])
    ELSE IF IsDict(v) THEN \E k \in DOMAIN v.dict : HasCloser(v.dict[k])
    ELSE FALSE

\* the position after the white space that starts at i
SkipWs(text, i) ==
    CHOOSE j \in i..(Len(text) + 1) :
        /\ \A k \in i..(j - 1) : text[k] = Tok("ws")
        /\ (j > Len(text) \/ text[j] # Tok("ws"))

\* text has token t at position i
TokAt(text, i, t) == i >= 1 /\ i <= Len(text) /\ text[i] = t

\* the places where the lazy .*? can stop after the { at position j: a }
\* directly followed by a ;, or the inside of a member whose text has };
CloserPositions(text, j) ==
    { k \in (j + 1)..Len(text) :
        \/ TokAt(text, k, Tok("}")) /\ TokAt(text, k + 1, Tok(";"))
        \/ IsMember(text[k]) /\ HasCloser(text[k].value) }

\* the position of the { that window.__preloadedData\s*=\s* at i leads to
BraceAfterAssign(text, i) == SkipWs(text, SkipWs(text, i + 1) + 1)

\* re.search(r'window\.__preloadedData\s*=\s*({.*?});', text, re.DOTALL);
\* group1 is the captured tokens, cut tells that the capture ends inside a
\* member
SearchPreloaded(text) ==
    LET P == { i \in 1..Len(text) :
                 /\ TokAt(text, i, Tok("var"))
                 /\ TokAt(text, SkipWs(text, i + 1), Tok("="))
                 /\ TokAt(text, BraceAfterAssign(text, i), Tok("{"))
                 /\ CloserPositions(text, BraceAfterAssign(text, i)) # {} }
    IN IF P = {} THEN [matched |-> FALSE, group1 |-> <<>>, cut |-> FALSE]
       ELSE LET j == BraceAfterAssign(text, Leftmost(P))
                k == Leftmost(CloserPositions(text, j))
            IN [matched |-> TRUE,
                group1 |-> SubSeq(text, j, k),
                cut |-> IsMember(text[k])]

\* the tokens of text that are not white space
RECURSIVE StripWs(_)
StripWs(text) ==
    IF text = <<>> THEN <<>>
    ELSE IF Head(text) = Tok("ws") THEN StripWs(Tail(text))
    ELSE <<Head(text)>> \o StripWs(Tail(text))

\* json.loads of a capture: an object { member , member ... }; of two members
\* with the same key the later one wins
json_loads(capture) ==
    IF capture.cut THEN Raise("JSONDecodeError")
    ELSE LET t == StripWs(capture.group1)
             inner == SubSeq(t, 2, Len(t) - 1)
             wellFormed ==
                 /\ Len(t) >= 2
                 /\ t[1] = Tok("{")
                 /\ t[Len(t)] = Tok("}")
                 /\ \/ inner = <<>>
                    \/ /\ Len(inner) % 2 = 1
                       /\ \A i \in 1..Len(inner) :
                            IF i % 2 = 1 THEN IsMember(inner[i])
                            ELSE inner[i] = Tok(",")
             keys == { inner[i].key : i \in { x \in 1..Len(inner) : x % 2 = 1 } }
             last(k) == CHOOSE i \in 1..Len(inner) :
                            /\ IsMember(inner[i]) /\ inner[i].key = k
                            /\ \A x \in (i + 1)..Len(inner) :
                                 ~(IsMember(inner[x]) /\ inner[x].key = k)
         IN IF ~wellFormed THEN Raise("JSONDecodeError")
            ELSE Return(Dict([k \in keys |-> inner[last(k)].value]))

\* data.get(k, default)
DictGet(d, k, default) == IF k \in DOMAIN d.dict THEN d.dict[k] ELSE default

\* pd.DataFrame(v) for a JSON value: a list of objects gives one row each,
\* None gives the empty frame
DataFrameOf(v) ==
    IF v = Null THEN Return(EmptyDataFrame)
    ELSE IF ~IsList(v) THEN Raise("ValueError")
    ELSE IF \E i \in 1..Len(v.list) : ~IsDict(v.list[i]) THEN Raise("KeyError")
    ELSE Return(DataFrame([i \in 1..Len(v.list) |-> v.list[i].dict]))

\* column_map (lines 119-125)
column_map ==
    [c \in {"commentBody", "createDate", "recommendations",
            "editorsSelection", "userDisplayName"} |-> c]

\* the inner try block (lines 111-130) with its except json.JSONDecodeError
ScrapeParse(capture) ==
    LET data == json_loads(capture)
    IN IF ~data.ok
       THEN (IF data.exc = "JSONDecodeError" THEN Return(EmptyDataFrame)
             ELSE data)
       ELSE LET comments_frame == DataFrameOf(DictGet(data.val, "comments", List(<<>>)))
            IN IF ~comments_frame.ok THEN comments_frame
               ELSE Select(Rename(comments_frame.val, column_map),
                           { column_map[c] : c \in DOMAIN column_map })

\* soup.find('script', id='js-article-comments')
FindCommentsScript(tags) ==
    LET P == { i \in 1..Len(tags) :
                 tags[i].name = "script" /\ tags[i].id = "js-article-comments" }
    IN IF P = {} THEN [found |-> FALSE] ELSE [found |-> TRUE, tag |-> tags[Leftmost(P)]]

\* the body of the outer try block (lines 87-130) for a given page answer
ScrapeTry(page) ==
    IF page.kind = "ConnectionError" THEN Raise("ConnectionError")
    ELSE LET script_tag == FindCommentsScript(page.tags)
         IN IF ~script_tag.found THEN Return(EmptyDataFrame)
            ELSE IF ~script_tag.tag.hasString THEN Raise("TypeError")
            ELSE LET json_data == SearchPreloaded(script_tag.tag.string)
                 IN IF ~json_data.matched THEN Return(EmptyDataFrame)
                    ELSE ScrapeParse(json_data)

\* try ... except Exception: return pd.DataFrame()
scrape_nyt_comments(page) ==
    LET r == ScrapeTry(page)
    IN IF r.ok THEN r ELSE Return(EmptyDataFrame)

\* the HTTP requests one call of scrape_nyt_comments issues (line 91)
ScrapeRequests(url) == << [to |-> "page", key |-> url] >>

(***************************************************************************)
(* Sentiment enrichment (lines 169-171)                                    *)
(***************************************************************************)
\* a float, in hundredths
Float(n) == [hundredths |-> n]

\* the polarity the external scorer gives the sample texts, in hundredths
Polarity(text) ==
    CASE text = "great" -> 80
      [] text = "awful" -> -100
      [] text = "odd }; text" -> -17
      [] OTHER -> 0

\* TextBlob(text).sentiment.polarity: TextBlob accepts strings only
TextBlobPolarity(text) ==
    IF IsStr(text) THEN Return(Float(Polarity(text.str)))
    ELSE Raise("TypeError")

\* Series.apply: the function applied to each element in order, from index i
\* on; the first exception ends the whole apply
RECURSIVE Apply(_, _, _)
Apply(series, i, out) ==
    IF i > Len(series) THEN Return(out)
    ELSE LET r == TextBlobPolarity(series[i])
         IN IF ~r.ok THEN r ELSE Apply(series, i + 1, Append(out, r.val))

\* comments_df['sentiment'] = comments_df['commentBody'].apply(...)
Enriched(df) ==
    IF "commentBody" \notin df.columns THEN Raise("KeyError")
    ELSE LET scores == Apply([i \in 1..Len(df.rows) |-> df.rows[i]["commentBody"]],
                             1, <<>>)
         IN IF ~scores.ok THEN scores
            ELSE Return([columns |-> df.columns \cup {"sentiment"},
                         rows |-> [i \in 1..Len(df.rows) |->
                                     [c \in df.columns \cup {"sentiment"} |->
                                         IF c = "sentiment" THEN scores.val[i]
                                         ELSE df.rows[i][c]]]])

(***************************************************************************)
(* Bounded inputs: what the endpoint and the article page can answer       *)
(***************************************************************************)
GqlComment(text, acceptedAt, recommendedCount, timesPick, name) ==
    Dict([text |-> text, acceptedAt |-> acceptedAt,
          recommendedCount |-> recommendedCount, timesPick |-> timesPick,
          author |-> Dict([name |-> name])])

Edge(comment) == Dict([node |-> Dict([comment |-> comment])])

GqlAnn == GqlComment(PyStr("great"), PyStr("2024-01-15T10:00:00"), PyInt(3),
                     PyBool(TRUE), PyStr("ann"))
GqlBob == GqlComment(PyStr("awful"), PyStr("2024-01-16T11:30:00"), PyInt(0),
                     PyBool(FALSE), PyStr("bob"))
GqlEmptyText == GqlComment(PyStr(""), PyStr("2024-01-17T09:00:00"), PyInt(1),
                           PyBool(FALSE), PyStr("cyd"))
GqlNullText == GqlComment(Null, PyStr("2024-01-18T08:00:00"), PyInt(2),
                          PyBool(FALSE), PyStr("dee"))

SampleEdges ==
    { Edge(GqlAnn), Edge(GqlBob), Edge(GqlEmptyText), Edge(GqlNullText),
      Edge(Without(GqlAnn, "recommendedCount")) }

\* all sequences over S of length at most n
SeqUpTo(S, n) == UNION { [1..k -> S] : k \in 0..n }

GqlJson(edges) ==
    [kind |-> "json",
     data |-> Dict([data |-> Dict([communityComments |->
                                     Dict([edges |-> List(edges)])])])]

GqlResponses ==
    { [kind |-> "ConnectionError"],
      [kind |-> "NotJson"],
      [kind |-> "json", data |-> Dict([errors |-> PyStr("PersistedQueryNotFound")])],
      [kind |-> "json", data |-> Dict([data |-> Dict([communityComments |-> Null])])] }
    \cup { GqlJson(edges) : edges \in SeqUpTo(SampleEdges, MaxEdges) }

PageComment(body, date, recs, pick, name) ==
    Dict([commentBody |-> body, createDate |-> date, recommendations |-> recs,
          editorsSelection |-> pick, userDisplayName |-> name,
          commentID |-> PyInt(7)])

PageAnn == PageComment(PyStr("great"), PyStr("1705312800"), PyInt(3),
                       PyBool(TRUE), PyStr("ann"))
PageBob == PageComment(PyStr("awful"), PyStr("1705404600"), PyInt(0),
                       PyBool(FALSE), PyStr("bob"))
PageOdd == PageComment(PyStr("odd }; text"), PyStr("1705482000"), PyInt(1),
                       PyBool(FALSE), PyStr("cyd"))

SamplePageComments ==
    { PageAnn, PageBob, PageOdd,
      Without(PageAnn, "recommendations"), Without(PageBob, "commentBody") }

\* the members of the sequence ms, separated by commas
RECURSIVE CommaSeparated(_)
CommaSeparated(ms) ==
    IF Len(ms) <= 1 THEN ms
    ELSE <<Head(ms), Tok(",")>> \o CommaSeparated(Tail(ms))

\* the script text  window.__preloadedData = { ms };
PreloadedText(ms) ==
    <<Tok("var"), Tok("ws"), Tok("="), Tok("ws"), Tok("{")>>
        \o CommaSeparated(ms) \o <<Tok("}"), Tok(";")>>

Script(id, text) == [name |-> "script", id |-> id, hasString |-> TRUE, string |-> text]

TitleTag == [name |-> "title", id |-> "", hasString |-> TRUE, string |-> <<Tok("junk")>>]

Page(tags) == [kind |-> "html", tags |-> tags]

\* a page whose js-article-comments script assigns an object with the
\* comments array cs
CommentsPage(cs) ==
    Page(<<TitleTag,
           Script("js-article-comments",
                  <<Tok("junk")>> \o
                  PreloadedText(<<Member("user", Null),
                                  Member("comments", List(cs))>>))>>)

PageResponses ==
    { [kind |-> "ConnectionError"],
      \* no script element at all, or none with the id
      Page(<<TitleTag>>),
      Page(<<TitleTag, Script("other", PreloadedText(<<Member("comments", List(<<PageAnn>>))>>))>>),
      \* the script element has no text
      Page(<<[name |-> "script", id |-> "js-article-comments", hasString |-> FALSE, string |-> <<>>]>>),
      \* no assignment, or none the pattern matches
      Page(<<Script("js-article-comments", <<Tok("junk")>>)>>),
      Page(<<Script("js-article-comments",
                    <<Tok("var"), Tok("="), Tok("{"), Tok("}"), Tok("ws"), Tok(";")>>)>>),
      \* an assignment whose object is no JSON
      Page(<<Script("js-article-comments",
                    <<Tok("var"), Tok("="), Tok("{"), Tok("junk"), Tok("}"), Tok(";")>>)>>),
      \* a JSON object without comments, or with comments null
      Page(<<Script("js-article-comments", PreloadedText(<<Member("user", Null)>>))>>),
      Page(<<Script("js-article-comments", PreloadedText(<<Member("comments", Null)>>))>>) }
    \cup { CommentsPage(cs) : cs \in SeqUpTo(SamplePageComments, MaxComments) }

SampleUrls ==
    { <<>>,
      Concat(<<ChunkHost, LitArticle, ChunkUuid>>),
      Concat(<<ChunkHost, ChunkDate, ChunkSlug, ChunkHtml>>),
      Concat(<<ChunkHost, ChunkSlug, ChunkSlash, ChunkNum>>),
      Concat(<<ChunkHost, ChunkSlug, ChunkHtml>>) }

(***************************************************************************)
(* The module-level script (lines 137-224), one run                        *)
(***************************************************************************)
NoException == [in |-> "none", exc |-> "none"]

Init ==
    /\ pc = "start"
    /\ article_url \in SampleUrls
    /\ article_id = None
    /\ comments_df = Undefined
    /\ calls = <<>>
    /\ requests = <<>>
    /\ gql_response = [kind |-> "none"]
    /\ page_response = [kind |-> "none"]
    /\ raised = NoException

\* `if article_url:` is false (lines 223-224)
NoUrl ==
    /\ pc = "start"
    /\ article_url = <<>>
    /\ pc' = "done"
    /\ UNCHANGED <<article_url, article_id, comments_df, calls, requests,
                   gql_response, page_response, raised>>

\* article_id = get_article_id(article_url) (line 147)
ExtractId ==
    /\ pc = "start"
    /\ article_url # <<>>
    /\ article_id' = get_article_id(article_url)
    /\ calls' = Append(calls, "get_article_id")
    /\ pc' = "id_done"
    /\ UNCHANGED <<article_url, comments_df, requests, gql_response,
                   page_response, raised>>

\* the call of a retriever whose outcome is r: the collection is assigned,
\* or the exception ends the script
Assign(fn, r, next) ==
    IF r.ok
    THEN /\ comments_df' = r.val
         /\ pc' = next
         /\ UNCHANGED raised
    ELSE /\ raised' = [in |-> fn, exc |-> r.exc]
         /\ pc' = "crashed"
         /\ UNCHANGED comments_df

\* comments_df = get_comments_via_graphql(article_id) (lines 149-152)
Structured ==
    /\ pc = "id_done"
    /\ Truthy(article_id)
    /\ \E response \in GqlResponses :
         /\ gql_response' = response
         /\ Assign("get_comments_via_graphql",
                   get_comments_via_graphql(response), "gql_done")
    /\ calls' = Append(calls, "get_comments_via_graphql")
    /\ requests' = requests \o GraphqlRequests(article_id)
    /\ UNCHANGED <<article_url, article_id, page_response>>

\* the call changed to drop what scrape_nyt_comments returns
ScrapeDropped(page) ==
    /\ page_response' = page
    /\ Assign("scrape_nyt_comments", Return(EmptyDataFrame), "retrieved")
    /\ calls' = Append(calls, "scrape_nyt_comments")
    /\ requests' = requests \o ScrapeRequests(article_url)
    /\ UNCHANGED <<article_url, article_id, gql_response>>

\* the call of scrape_nyt_comments(article_url), answered by page
Scrape(page) ==
    /\ page_response' = page
    /\ Assign("scrape_nyt_comments", scrape_nyt_comments(page), "retrieved")
    /\ calls' = Append(calls, "scrape_nyt_comments")
    /\ requests' = requests \o ScrapeRequests(article_url)
    /\ UNCHANGED <<article_url, article_id, gql_response>>

\* the fallback changed to run whatever the structured result is
FallbackAlways ==
    /\ pc = "gql_done"
    /\ \E page \in PageResponses : Scrape(page)

\* `if comments_df.empty:` is true (lines 154-157)
Fallback ==
    /\ pc = "gql_done"
    /\ Empty(comments_df)
    /\ \E page \in PageResponses : Scrape(page)

\* `if comments_df.empty:` is false
KeepStructured ==
    /\ pc = "gql_done"
    /\ ~Empty(comments_df)
    /\ pc' = "retrieved"
    /\ UNCHANGED <<article_url, article_id, comments_df, calls, requests,
                   gql_response, page_response, raised>>

\* `if article_id:` is false (lines 158-161)
ScrapeDirectly ==
    /\ pc = "id_done"
    /\ ~Truthy(article_id)
    /\ \E page \in PageResponses : Scrape(page)

\* `if not comments_df.empty:` the sentiment column (lines 167-171)
Enrich ==
    /\ pc = "retrieved"
    /\ ~Empty(comments_df)
    /\ Assign("sentiment", Enriched(comments_df), "enriched")
    /\ calls' = Append(calls, "sentiment")
    /\ UNCHANGED <<article_url, article_id, requests, gql_response,
                   page_response>>

\* `if not comments_df.empty:` is false (lines 221-222)
NoComments ==
    /\ pc = "retrieved"
    /\ Empty(comments_df)
    /\ pc' = "done"
    /\ UNCHANGED <<article_url, article_id, comments_df, calls, requests,
                   gql_response, page_response, raised>>

\* the chart and the table (lines 173-220), which retrieve nothing
Render ==
    /\ pc = "enriched"
    /\ pc' = "done"
    /\ UNCHANGED <<article_url, article_id, comments_df, calls, requests,
                   gql_response, page_response, raised>>

Next ==
    \/ NoUrl
    \/ ExtractId
    \/ Structured
    \/ Fallback
    \/ KeepStructured
    \/ ScrapeDirectly
    \/ Enrich
    \/ NoComments
    \/ Render

Spec == Init /\ [][Next]_vars

(***************************************************************************)
(* get_article_id on its own, over all bounded URLs                        *)
(***************************************************************************)
InitId ==
    /\ pc = "start"
    /\ article_url \in BoundedUrls
    /\ article_id = None
    /\ comments_df = Undefined
    /\ calls = <<>>
    /\ requests = <<>>
    /\ gql_response = [kind |-> "none"]
    /\ page_response = [kind |-> "none"]
    /\ raised = NoException

NextId == ExtractId

SpecId == InitId /\ [][NextId]_vars

(***************************************************************************)
(* Properties                                                              *)
(***************************************************************************)
Called(fn) == \E i \in 1..Len(calls) : calls[i] = fn

GID == "get_article_id"
GQL == "get_comments_via_graphql"
SCRAPE == "scrape_nyt_comments"

\* the calls of the retrieval, in order
RetrievalCalls == SelectSeq(calls, LAMBDA c : c \in {GID, GQL, SCRAPE})

\* what get_comments_via_graphql returned for the recorded answer
StructuredResult == get_comments_via_graphql(gql_response).val

\* the retrieval is over
Retrieved == pc \in {"retrieved", "enriched"} \/ (pc \in {"done", "crashed"} /\ Called(GID))

\* C1: get_article_id runs first; with an identifier the structured
\* retriever is called next and the scraping retriever after it exactly when
\* the structured result is empty; without an identifier only the scraping
\* retriever is called; a non-empty structured result is the final collection
\* and the scraping retriever is not called.
C1_CallOrder ==
    /\ \A i \in 1..Len(calls) : calls[i] = GID <=> i = 1
    /\ Called(GQL) => article_id # None /\ calls[2] = GQL
    /\ Called(SCRAPE) =>
         IF article_id # None
         THEN RetrievalCalls = <<GID, GQL, SCRAPE>> /\ Empty(StructuredResult)
         ELSE RetrievalCalls = <<GID, SCRAPE>>
    /\ Retrieved =>
         IF article_id # None
         THEN /\ Called(GQL)
              /\ Called(SCRAPE) <=> Empty(StructuredResult)
              /\ (pc = "retrieved" /\ ~Empty(StructuredResult))
                    => comments_df = StructuredResult
         ELSE RetrievalCalls = <<GID, SCRAPE>>

C1_Witness ==
    /\ pc = "retrieved"
    /\ calls = <<GID, GQL, SCRAPE>>
    /\ gql_response = GqlJson(<<>>)

\* C2: when the structured retriever returned an empty collection for an
\* identifier, the final collection is what scrape_nyt_comments returns for
\* the answer to the request for the same URL, whatever that answer is.
C2_FallbackResult ==
    (pc = "retrieved" /\ Called(GQL) /\ Empty(StructuredResult)) =>
        /\ requests[Len(requests)] = [to |-> "page", key |-> article_url]
        /\ comments_df = scrape_nyt_comments(page_response).val

C2_Witness ==
    /\ pc = "retrieved"
    /\ Called(GQL)
    /\ Empty(StructuredResult)
    /\ ~Empty(comments_df)

\* C3: no exception leaves a retriever: whatever the endpoint and the page
\* answer, each retriever returns a collection, the retrieval ends with a
\* collection assigned, and after a failing structured retriever the
\* collection is empty and the scraping retriever is called.
C3_FailuresContained ==
    /\ raised.in \notin {GQL, SCRAPE}
    /\ (pc = "gql_done" \/ Retrieved) => IsDataFrame(comments_df)
    /\ (pc = "gql_done" /\ ~GraphqlTry(gql_response).ok) => comments_df = EmptyDataFrame
    /\ (Retrieved /\ Called(GQL) /\ ~GraphqlTry(gql_response).ok) => Called(SCRAPE)

C3_Witness ==
    /\ pc = "retrieved"
    /\ Called(GQL)
    /\ ~GraphqlTry(gql_response).ok
    /\ ~ScrapeTry(page_response).ok
    /\ comments_df = EmptyDataFrame

\* C4: a comment with a missing field is kept, with the field defaulted
\* (recommendation count 0): the structured collection has one comment per
\* edge and the scraped collection one per element of the comments array.
C4_MissingFieldDefaulted ==
    /\ pc = "gql_done" =>
         \A edges \in SeqUpTo(SampleEdges, MaxEdges) :
            gql_response = GqlJson(edges) =>
                /\ Len(comments_df.rows) = Len(edges)
                /\ \A i \in 1..Len(edges) :
                     ~GetPath(edges[i], <<"node", "comment", "recommendedCount">>).ok
                        => comments_df.rows[i]["recommendations"] = PyInt(0)
    /\ (pc = "retrieved" /\ calls[Len(calls)] = SCRAPE) =>
         \A cs \in SeqUpTo(SamplePageComments, MaxComments) :
            (page_response = CommentsPage(cs) /\ ~HasCloser(List(cs))) =>
                /\ Len(comments_df.rows) = Len(cs)
                /\ \A i \in 1..Len(cs) :
                     ~GetItem(cs[i], "recommendations").ok
                        => comments_df.rows[i]["recommendations"] = PyInt(0)

HexUpper == {"A", "B", "C", "D", "E", "F"}

\* a UUID (8-4-4-4-12 hexadecimal digits) starts at position i of s
UuidAt(s, i) ==
    /\ i + 35 <= Len(s)
    /\ \A k \in 0..35 :
         IF k \in {8, 13, 18, 23} THEN s[i + k] = "-"
         ELSE s[i + k] \in Digit \cup HexLower \cup HexUpper

\* the positions of s where a UUID follows the text article/
UuidPositions(s) == { i \in 1..Len(s) : LitAt(s, i - 8, LitArticle) /\ UuidAt(s, i) }

\* C5: for every URL that bears a UUID after article/, get_article_id
\* returns that UUID, nothing more and nothing less, whatever else the URL
\* contains.
C5_UuidExact ==
    (pc = "id_done" /\ UuidPositions(article_url) # {}) =>
        \E i \in UuidPositions(article_url) :
            article_id = SubSeq(article_url, i, i + 35)

\* C6: get_article_id returns the capture of the first of the three patterns,
\* in the order UUID, date/slug, digits, that matches, and None exactly when
\* none of them matches.
C6_FirstMatchWins ==
    pc = "id_done" =>
        LET uuid == SearchUuid(article_url)
            slug == SearchDateSlug(article_url)
            digits == SearchDigits(article_url)
        IN /\ uuid.matched => article_id = uuid.group1
           /\ (~uuid.matched /\ slug.matched) => article_id = slug.group1
           /\ (~uuid.matched /\ ~slug.matched /\ digits.matched)
                 => article_id = digits.group1
           /\ article_id = None
                 <=> (~uuid.matched /\ ~slug.matched /\ ~digits.matched)

C6_Witness ==
    /\ pc = "id_done"
    /\ SearchDateSlug(article_url).matched
    /\ SearchDigits(article_url).matched
    /\ ~SearchUuid(article_url).matched
    /\ SearchDigits(article_url).group1 # SearchDateSlug(article_url).group1
    /\ article_id = SearchDateSlug(article_url).group1

\* C7: one run issues at most one request to the endpoint and at most one
\* for the page, at most three requests in all, the endpoint's before the
\* page's, and none is sent again.
C7_RequestBudget ==
    /\ Cardinality({ i \in 1..Len(requests) : requests[i].to = "graphql" }) <= 1
    /\ Cardinality({ i \in 1..Len(requests) : requests[i].to = "page" }) <= 1
    /\ Len(requests) <= 3
    /\ \A i, j \in 1..Len(requests) :
         /\ i < j => requests[i] # requests[j]
         /\ (requests[i].to = "page" /\ requests[j].to = "graphql") => j < i
    /\ Len(requests) = Cardinality({ i \in 1..Len(calls) : calls[i] \in {GQL, SCRAPE} })

C7_Witness ==
    /\ pc = "done"
    /\ Len(requests) = 2
    /\ requests[1].to = "graphql"
    /\ requests[2].to = "page"

\* an edge with node.comment carrying all five mapped fields
WellFormedEdge(e) ==
    /\ IsDict(e) /\ "node" \in DOMAIN e.dict
    /\ IsDict(e.dict["node"]) /\ "comment" \in DOMAIN e.dict["node"].dict
    /\ LET c == e.dict["node"].dict["comment"]
       IN /\ IsDict(c)
          /\ {"text", "acceptedAt", "recommendedCount", "timesPick", "author"}
                \subseteq DOMAIN c.dict
          /\ IsDict(c.dict["author"])
          /\ "name" \in DOMAIN c.dict["author"].dict

\* C8: for an answer with N well-formed edges the structured retriever
\* returns exactly N comments in edge order, the i-th built from the i-th
\* edge's node.comment by the field mapping; for N = 0 the collection is empty.
C8_StructuredMapping ==
    pc = "gql_done" =>
        \A edges \in SeqUpTo(SampleEdges, MaxEdges) :
            (gql_response = GqlJson(edges)
                /\ \A i \in 1..Len(edges) : WellFormedEdge(edges[i])) =>
                /\ Len(comments_df.rows) = Len(edges)
                /\ (edges = <<>> => Empty(comments_df))
                /\ \A i \in 1..Len(edges) :
                     LET c == edges[i].dict["node"].dict["comment"].dict
                     IN comments_df.rows[i] =
                            [commentBody |-> c["text"],
                             createDate |-> c["acceptedAt"],
                             recommendations |-> c["recommendedCount"],
                             editorsSelection |-> c["timesPick"],
                             userDisplayName |-> c["author"].dict["name"]]

C8_Witness ==
    /\ pc = "gql_done"
    /\ gql_response = GqlJson(<<Edge(GqlBob), Edge(GqlAnn)>>)
    /\ Len(comments_df.rows) = 2
    /\ comments_df.rows[1]["userDisplayName"] = PyStr("bob")

\* C9: for a page whose js-article-comments script assigns a JSON object
\* with a comments array of length M the scraping retriever returns M
\* comments; without the script, without a matching assignment or with
\* unparsable JSON it returns the empty collection.
C9_ScrapedLength ==
    (pc = "retrieved" /\ calls[Len(calls)] = SCRAPE) =>
        /\ \A cs \in SeqUpTo(SamplePageComments, MaxComments) :
              page_response = CommentsPage(cs) => Len(comments_df.rows) = Len(cs)
        /\ (page_response.kind = "html"
              /\ \/ ~FindCommentsScript(page_response.tags).found
                 \/ ~FindCommentsScript(page_response.tags).tag.hasString
                 \/ ~SearchPreloaded(FindCommentsScript(page_response.tags).tag.string).matched
                 \/ ~json_loads(SearchPreloaded(FindCommentsScript(page_response.tags).tag.string)).ok)
              => Empty(comments_df)

\* C10: enriching a non-empty collection of K comments gives K comments in
\* the same order, each with a polarity; a comment the polarity function
\* fails on gets 0.0 and the others are still scored.
C10_EnrichKeepsBatch ==
    [][(pc = "retrieved" /\ ~Empty(comments_df)) =>
          /\ pc' = "enriched"
          /\ Len(comments_df'.rows) = Len(comments_df.rows)
          /\ \A i \in 1..Len(comments_df.rows) :
               /\ \A c \in comments_df.columns :
                    comments_df'.rows[i][c] = comments_df.rows[i][c]
               /\ comments_df'.rows[i]["sentiment"] =
                    IF IsStr(comments_df.rows[i]["commentBody"])
                    THEN Float(Polarity(comments_df.rows[i]["commentBody"].str))
                    ELSE Float(0)]_vars

====
